---- MODULE Spec2Model ----
(***************************************************************************)
(* A model of the Startup Co-Founder Agent: the command line run of        *)
(* cli.main, the four generation functions of generator.py with the        *)
(* outline parser of generate_pitch_deck_outline, and the deck assembler   *)
(* ppt_generator.create_pitch_deck.                                        *)
(*                                                                         *)
(* Text is modelled as a sequence of one-character strings, so that the    *)
(* string methods the code calls (strip, lstrip, splitlines, split,        *)
(* replace) are computed character by character as Python computes them.   *)
(***************************************************************************)
EXTENDS Integers, Sequences, FiniteSets, TLC

(***************************************************************************)
(* Bounds of the model.                                                    *)
(***************************************************************************)
\* longest reply, in characters, of the exhaustively enumerated replies
MaxLen == 5
\* most lines of a line-structured reply
MaxLines == 2
\* most records handed to create_pitch_deck by a direct caller
MaxSlides == 2

(***************************************************************************)
(* Python string methods.                                                  *)
(***************************************************************************)
\* the characters str.strip() removes (those of them the model's texts use)
Whitespace == {" ", "\n", "\r"}

\* the line boundaries of str.splitlines() (those the model's texts use)
LineBreaks == {"\n", "\r"}

\* s[i:] for a 1-based i
From(s, i) == SubSeq(s, i, Len(s))

\* str.lstrip(chars): drop the longest prefix made of characters of chars
RECURSIVE lstrip(_, _)
lstrip(s, chars) ==
    IF s # <<>> /\ Head(s) \in chars THEN lstrip(Tail(s), chars) ELSE s

\* str.rstrip(chars)
RECURSIVE rstrip(_, _)
rstrip(s, chars) ==
    IF s # <<>> /\ s[Len(s)] \in chars
    THEN rstrip(SubSeq(s, 1, Len(s) - 1), chars)
    ELSE s

\* str.strip() with no argument: whitespace off both ends
strip(s) == lstrip(rstrip(s, Whitespace), Whitespace)

\* c in s
Contains(s, c) == \E i \in 1..Len(s) : s[i] = c

\* str.find(c) + 1: the 1-based index of the first c in s, 0 when absent
Find(s, c) ==
    IF Contains(s, c)
    THEN CHOOSE i \in 1..Len(s) : s[i] = c /\ \A j \in 1..(i - 1) : s[j] # c
    ELSE 0

\* str.split(c, 1) on a string that contains c: <<before, after>>
split1(s, c) == <<SubSeq(s, 1, Find(s, c) - 1), From(s, Find(s, c) + 1)>>

\* str.split(c): every piece, empty ones included
RECURSIVE split(_, _)
split(s, c) ==
    IF Contains(s, c)
    THEN <<split1(s, c)[1]>> \o split(split1(s, c)[2], c)
    ELSE <<s>>

\* str.replace(a, b) for one-character a and b
replace(s, a, b) == [i \in 1..Len(s) |-> IF s[i] = a THEN b ELSE s[i]]

\* the index of the first line boundary of s, 0 when there is none
FirstBreak(s) ==
    IF \E i \in 1..Len(s) : s[i] \in LineBreaks
    THEN CHOOSE i \in 1..Len(s) :
            s[i] \in LineBreaks /\ \A j \in 1..(i - 1) : s[j] \notin LineBreaks
    ELSE 0

\* the length of the line boundary at i: "\r\n" is one boundary
BreakLen(s, i) ==
    IF s[i] = "\r" /\ i < Len(s) /\ s[i + 1] = "\n" THEN 2 ELSE 1

\* str.splitlines(): lines without their boundaries; no line after a final
\* boundary, and no line at all for the empty string
RECURSIVE splitlines(_)
splitlines(s) ==
    IF s = <<>> THEN <<>>
    ELSE IF FirstBreak(s) = 0 THEN <<s>>
    ELSE <<SubSeq(s, 1, FirstBreak(s) - 1)>>
            \o splitlines(From(s, FirstBreak(s) + BreakLen(s, FirstBreak(s))))

(***************************************************************************)
(* generator.py: configuration and the outline parser.                     *)
(***************************************************************************)
\* Python's None, for an api_key argument or environment variable not given
None == "None"

\* the truth value Python gives a key: None and "" are falsy
Truthy(key) == key \notin {None, ""}

\* key = api_key or os.getenv("OPENAI_API_KEY")
ResolveKey(arg_key, environ_key) == IF Truthy(arg_key) THEN arg_key ELSE environ_key

\* a variant of _ensure_openai that never looks at the key
_ensure_openai_NoKeyCheck(installed, arg_key, environ_key) ==
    IF ~installed THEN "RuntimeError: openai not installed" ELSE "ok"

\* _ensure_openai: which error it raises, or "ok" when it returns
_ensure_openai(installed, arg_key, environ_key) ==
    IF ~installed THEN "RuntimeError: openai not installed"
    ELSE IF ~Truthy(ResolveKey(arg_key, environ_key)) THEN "RuntimeError: no API key"
    ELSE "ok"

\* the title of the fallback record
PitchDeck == <<"P", "i", "t", "c", "h", " ", "D", "e", "c", "k">>

\* a variant of the fallback record that strips bullet characters off the text
Fallback_Stripped(text) == [title |-> PitchDeck, content |-> lstrip(text, {"-", " "})]

\* the fallback record: the whole raw text under the fixed title
Fallback(text) == [title |-> PitchDeck, content |-> text]

\* the characters content.lstrip("- ") removes
BulletChars == {"-", " "}

\* content = content.strip().lstrip("- ")
StripBullet(content) == lstrip(strip(content), BulletChars)

\* the record of a line's remainder (the text after the first "."), which
\* holds a ":": title and content around the first ":"
RecordOf(rest) ==
    [title   |-> strip(split1(rest, ":")[1]),
     content |-> StripBullet(split1(rest, ":")[2])]

\* a variant of the loop's turn that looks for the ":" without requiring a "."
ParseLine_AnyColon(line) ==
    IF strip(line) = <<>> THEN <<>>
    ELSE LET rest == IF Contains(line, ".") THEN strip(split1(line, ".")[2])
                     ELSE strip(line)
         IN  IF Contains(rest, ":") THEN <<RecordOf(rest)>> ELSE <<>>

\* one turn of the parser's loop: the records a line appends (none or one)
ParseLine(line) ==
    IF strip(line) = <<>> THEN <<>>
    ELSE IF Contains(line, ".")
         THEN LET rest == strip(split1(line, ".")[2])
              IN  IF Contains(rest, ":") THEN <<RecordOf(rest)>> ELSE <<>>
         ELSE <<>>

\* the parser's loop over the lines
RECURSIVE ParseLines(_)
ParseLines(lines) ==
    IF lines = <<>> THEN <<>>
    ELSE ParseLine(Head(lines)) \o ParseLines(Tail(lines))

\* a variant of the parser without the fallback
ParseOutline_NoFallback(text) == ParseLines(splitlines(text))

\* the parser of generate_pitch_deck_outline: the records of the lines, or
\* the fallback record when no line gave one.  Nothing in the try block can
\* raise on a str, so the except branch (the same fallback) is never taken.
ParseOutline(text) ==
    IF ParseLines(splitlines(text)) = <<>>
    THEN <<Fallback(text)>>
    ELSE ParseLines(splitlines(text))

(***************************************************************************)
(* ppt_generator.py: the deck assembler.                                   *)
(***************************************************************************)
\* dict.get(key, default)
Get(d, key, default) == IF key \in DOMAIN d THEN d[key] ELSE default

\* a variant of the emptiness test that never fires
NoSlides_Never(s) == FALSE

\* if not slides
NoSlides(s) == Len(s) = 0

\* the placeholder type the assembler looks for (the code's comment calls
\* it the body placeholder; in python-pptx 1 is PP_PLACEHOLDER.TITLE)
BodyType == 1

\* Presentation().slide_layouts: the placeholder types of the default
\* template's layouts 0 (Title Slide: CENTER_TITLE 3, SUBTITLE 4) and
\* 1 (Title and Content: TITLE 1, OBJECT 7), in document order
SlideLayouts == << <<3, 4>>, <<1, 7>> >>

\* the layout index of the slide at a 0-based index
LayoutOf(index) == IF index = 0 THEN 0 ELSE 1

\* a text frame after clear(): one empty paragraph
EmptyFrame == << <<>> >>

\* the bullet lines of a content string:
\* [line.strip() for line in content.replace(";", "\n").split("\n") if line.strip()]
NonBlank(line) == strip(line) # <<>>
BulletLines(content) ==
    LET kept == SelectSeq(split(replace(content, ";", "\n"), "\n"), NonBlank)
    IN  [i \in 1..Len(kept) |-> strip(kept[i])]

\* slides.add_slide(layout): the layout's placeholders, each with an empty frame
AddSlide(layout) ==
    [layout       |-> layout,
     placeholders |-> [i \in 1..Len(SlideLayouts[layout + 1]) |->
                          [type |-> SlideLayouts[layout + 1][i], paragraphs |-> EmptyFrame]]]

\* slide.shapes.title.text = title: the title shape is the first placeholder;
\* assigning text makes one paragraph per "\n"-separated piece
SetTitle(slide, title) ==
    [slide EXCEPT !.placeholders[1].paragraphs = split(title, "\n")]

\* the first placeholder whose type is 1, 0 when the slide has none
BodyIndex(slide) ==
    IF \E i \in 1..Len(slide.placeholders) : slide.placeholders[i].type = BodyType
    THEN CHOOSE i \in 1..Len(slide.placeholders) :
            /\ slide.placeholders[i].type = BodyType
            /\ \A j \in 1..(i - 1) : slide.placeholders[j].type # BodyType
    ELSE 0

\* the loop over slide.placeholders: the first placeholder of type 1 is
\* cleared and, when there are bullet lines, gets one paragraph per line
SetBody(slide, content) ==
    IF BodyIndex(slide) = 0 THEN slide
    ELSE [slide EXCEPT !.placeholders[BodyIndex(slide)].paragraphs =
            IF BulletLines(content) = <<>> THEN EmptyFrame ELSE BulletLines(content)]

\* one turn of create_pitch_deck's loop: the slide made of a record
MakeSlide(index, slide_data) ==
    SetBody(SetTitle(AddSlide(LayoutOf(index)), Get(slide_data, "title", <<>>)),
            Get(slide_data, "content", <<>>))

\* the presentation create_pitch_deck builds of a non-empty record sequence
BuildDeck(s) == [i \in 1..Len(s) |-> MakeSlide(i - 1, s[i])]

(***************************************************************************)
(* The inputs of the model.                                                *)
(***************************************************************************)
\* the values of the --api-key argument and of OPENAI_API_KEY
Keys == {None, "", "sk-1"}

\* the characters of the exhaustively enumerated replies
Chars == {"1", ".", ":", "-", " ", "\n", "\r"}

\* every text of at most MaxLen characters
ShortTexts == UNION {[1..n -> Chars] : n \in 0..MaxLen}

\* sample outline lines: well-formed ones (a later ":" in the content, a
\* bullet starting with a dash, a dash-space marker), and lines the parser skips
SampleLines ==
    { <<"1", ".", " ", "T", ":", " ", "a", ";", " ", "b">>,
      <<"2", ".", " ", "U", ":", " ", "c", ":", " ", "d">>,
      <<"3", ".", " ", "V", ":", " ", "-", "5", ";", " ", "e">>,
      <<"4", ".", " ", "W", ":", " ", "-", " ", "f", ";", " ", "g">>,
      <<"S", "l", "i", "d", "e", " ", "o", "n", "e">>,
      <<"5", ".", " ", "X">>,
      <<"Y", ":", " ", "h", ".">>,
      <<" ">> }

\* lines joined by "\n"
RECURSIVE JoinLines(_)
JoinLines(lines) ==
    IF Len(lines) = 0 THEN <<>>
    ELSE IF Len(lines) = 1 THEN lines[1]
    ELSE lines[1] \o <<"\n">> \o JoinLines(Tail(lines))

\* every text of at most MaxLines sample lines
LineTexts == {JoinLines(ls) : ls \in UNION {[1..n -> SampleLines] : n \in 1..MaxLines}}

\* the replies the service may give to the outline prompt: a command line
\* run sees the line-structured ones, a direct call every short text as well
OutlineReplies(e) == IF e = "main" THEN LineTexts ELSE LineTexts \cup ShortTexts

\* the replies the service may give to the three text prompts
TextReplies == { <<" ", "r", "e", "p", "o", "r", "t", "\n">> }

\* records a direct caller may hand to create_pitch_deck
SampleRecords ==
    { [title |-> <<"T">>, content |-> <<"a", ";", " ", "b">>],
      [title |-> <<"T">>, content |-> <<"a", "\n", "b">>],
      [title |-> <<"U">>, content |-> <<"b", ";", ";", " ", "a", "\n", "b", " ">>],
      [title |-> <<"V">>, content |-> <<" ", ";", "\n">>],
      [title |-> <<"W">>] }

\* the record sequences a direct caller may hand to create_pitch_deck
SlideInputs == UNION {[1..n -> SampleRecords] : n \in 0..MaxSlides}

(***************************************************************************)
(* cli.py: the run.                                                        *)
(***************************************************************************)
\* the generation steps of main, in its order, and the output steps after them
GenerationSteps ==
    <<"generate_market_analysis", "generate_pricing_tiers",
      "generate_landing_page_copy", "generate_pitch_deck_outline">>
TextSteps == {GenerationSteps[i] : i \in 1..3}
MainSteps ==
    GenerationSteps \o
    <<"write_market_analysis", "write_pricing_tiers", "write_landing_page",
      "create_pitch_deck", "done">>

\* the artifact each output step writes
ArtifactOf(step) ==
    CASE step = "write_market_analysis" -> "market_analysis.txt"
      [] step = "write_pricing_tiers"   -> "pricing_tiers.txt"
      [] step = "write_landing_page"    -> "landing_page.txt"
      [] step = "create_pitch_deck"     -> "pitch_deck.pptx"
Artifacts ==
    {"market_analysis.txt", "pricing_tiers.txt", "landing_page.txt", "pitch_deck.pptx"}

\* what the service does with a request: a completion, an exception of the
\* call, or a response without choices[0].message.content
Outcomes == {"ok", "api_error", "bad_format"}

\* the RuntimeError _chat_completion raises for a failed request
ErrorOf(outcome) ==
    IF outcome = "api_error" THEN "RuntimeError: Failed to call OpenAI API"
    ELSE "RuntimeError: Unexpected response format"

\* the statement after a step that returned: the next one of main for a
\* command line run, the caller's for a direct call
Following(e, step) ==
    IF e = "main"
    THEN MainSteps[(CHOOSE i \in 1..Len(MainSteps) : MainSteps[i] = step) + 1]
    ELSE "done"

\* a variant in which an exception is swallowed and the run goes on
AfterStep_Swallow(e, step, raised) == Following(e, step)

\* where control goes after a step: on when it returned, out of main (or of
\* the called function) when it raised; nothing catches an exception
AfterStep(e, step, raised) == IF raised THEN "failed" ELSE Following(e, step)

\* a Python variable holding a text or an object is modelled as a sequence:
\* empty while it is unassigned, <<value>> once it is assigned
Unset == <<>>
Value(v) == <<v>>

VARIABLES
    entry,              \* what runs: "main", or the one function a caller calls directly
    pc,                 \* the step about to run, "done" or "failed"
    openai_installed,   \* whether import openai succeeded
    api_key,            \* the api_key argument
    environ_key,        \* os.getenv("OPENAI_API_KEY")
    openai_api_key,     \* the module-level openai.api_key
    requests,           \* the requests issued to the service, with their outcomes
    texts,              \* the text each text step returned (Unset before)
    raw,                \* the outline text _chat_completion returned (Unset before)
    slides,             \* the slide records
    prs,                \* the presentation built (Unset before)
    files,              \* the artifacts written
    error               \* the exception that ended the run, None when none

vars ==
    <<entry, pc, openai_installed, api_key, environ_key, openai_api_key,
      requests, texts, raw, slides, prs, files, error>>

config == <<entry, openai_installed, api_key, environ_key>>

\* the functions a caller may call directly
Functions == {GenerationSteps[i] : i \in 1..4} \cup {"create_pitch_deck"}

Init ==
    /\ entry \in {"main"} \cup Functions
    /\ openai_installed \in BOOLEAN
    /\ api_key \in Keys
    /\ environ_key \in Keys
    /\ openai_api_key = None
    /\ requests = <<>>
    /\ texts = [s \in TextSteps |-> Unset]
    /\ raw = Unset
    /\ prs = Unset
    /\ files = {}
    /\ error = None
    /\ pc = IF entry = "main" THEN GenerationSteps[1] ELSE entry
    /\ slides \in IF entry = "create_pitch_deck" THEN SlideInputs ELSE {<<>>}

\* _chat_completion raising the configuration error of _ensure_openai
ConfigError(step) ==
    /\ _ensure_openai(openai_installed, api_key, environ_key) # "ok"
    /\ error' = _ensure_openai(openai_installed, api_key, environ_key)
    /\ pc' = AfterStep(entry, step, TRUE)
    /\ UNCHANGED <<config, openai_api_key, requests, texts, raw, slides, prs, files>>

\* _chat_completion issuing its request and the request failing
RequestFails(step) ==
    /\ _ensure_openai(openai_installed, api_key, environ_key) = "ok"
    /\ openai_api_key' = ResolveKey(api_key, environ_key)
    /\ \E outcome \in Outcomes \ {"ok"} :
          /\ requests' = Append(requests, [step |-> step, outcome |-> outcome])
          /\ error' = ErrorOf(outcome)
    /\ pc' = AfterStep(entry, step, TRUE)
    /\ UNCHANGED <<config, texts, raw, slides, prs, files>>

\* a text step whose request succeeds: the stripped completion is returned
TextReturns(step) ==
    /\ _ensure_openai(openai_installed, api_key, environ_key) = "ok"
    /\ openai_api_key' = ResolveKey(api_key, environ_key)
    /\ requests' = Append(requests, [step |-> step, outcome |-> "ok"])
    /\ \E reply \in TextReplies : texts' = [texts EXCEPT ![step] = Value(strip(reply))]
    /\ pc' = AfterStep(entry, step, FALSE)
    /\ UNCHANGED <<config, raw, slides, prs, files, error>>

generate_market_analysis ==
    /\ pc = "generate_market_analysis"
    /\ \/ ConfigError("generate_market_analysis")
       \/ RequestFails("generate_market_analysis")
       \/ TextReturns("generate_market_analysis")

generate_pricing_tiers ==
    /\ pc = "generate_pricing_tiers"
    /\ \/ ConfigError("generate_pricing_tiers")
       \/ RequestFails("generate_pricing_tiers")
       \/ TextReturns("generate_pricing_tiers")

generate_landing_page_copy ==
    /\ pc = "generate_landing_page_copy"
    /\ \/ ConfigError("generate_landing_page_copy")
       \/ RequestFails("generate_landing_page_copy")
       \/ TextReturns("generate_landing_page_copy")

\* the outline step whose request succeeds: the stripped completion is parsed
OutlineReturns(step) ==
    /\ _ensure_openai(openai_installed, api_key, environ_key) = "ok"
    /\ openai_api_key' = ResolveKey(api_key, environ_key)
    /\ requests' = Append(requests, [step |-> step, outcome |-> "ok"])
    /\ \E reply \in OutlineReplies(entry) :
          /\ raw' = Value(strip(reply))
          /\ slides' = ParseOutline(strip(reply))
    /\ pc' = AfterStep(entry, step, FALSE)
    /\ UNCHANGED <<config, texts, prs, files, error>>

generate_pitch_deck_outline ==
    /\ pc = "generate_pitch_deck_outline"
    /\ \/ ConfigError("generate_pitch_deck_outline")
       \/ RequestFails("generate_pitch_deck_outline")
       \/ OutlineReturns("generate_pitch_deck_outline")

\* path.write_text(text): the file is written, or the write raises OSError
write_text ==
    /\ pc \in {"write_market_analysis", "write_pricing_tiers", "write_landing_page"}
    /\ \E written \in BOOLEAN :
          /\ files' = IF written THEN files \cup {ArtifactOf(pc)} ELSE files
          /\ error' = IF written THEN error ELSE "OSError"
          /\ pc' = AfterStep(entry, pc, ~written)
    /\ UNCHANGED <<config, openai_api_key, requests, texts, raw, slides, prs>>

\* create_pitch_deck: ValueError for no slides; else the presentation is
\* built and saved, or the save raises OSError
create_pitch_deck ==
    /\ pc = "create_pitch_deck"
    /\ \/ /\ NoSlides(slides)
          /\ error' = "ValueError"
          /\ pc' = AfterStep(entry, pc, TRUE)
          /\ UNCHANGED <<prs, files>>
       \/ /\ ~NoSlides(slides)
          /\ prs' = Value(BuildDeck(slides))
          /\ \E saved \in BOOLEAN :
                /\ files' = IF saved THEN files \cup {ArtifactOf(pc)} ELSE files
                /\ error' = IF saved THEN error ELSE "OSError"
                /\ pc' = AfterStep(entry, pc, ~saved)
    /\ UNCHANGED <<config, openai_api_key, requests, texts, raw, slides>>

Next ==
    \/ generate_market_analysis
    \/ generate_pricing_tiers
    \/ generate_landing_page_copy
    \/ generate_pitch_deck_outline
    \/ write_text
    \/ create_pitch_deck

Spec == Init /\ [][Next]_vars
(***************************************************************************)
(* What the properties below are stated with.  These definitions follow    *)
(* the words of the specification, not the operators above.                *)
(***************************************************************************)
\* the outline parser has returned: slides is its result for the text Raw
Parsed == raw # Unset
Raw == raw[1]

\* a text without its leading and trailing whitespace
Trim(s) ==
    IF \A i \in 1..Len(s) : s[i] \in Whitespace THEN <<>>
    ELSE SubSeq(s,
                CHOOSE i \in 1..Len(s) :
                    s[i] \notin Whitespace /\ \A k \in 1..(i - 1) : s[k] \in Whitespace,
                CHOOSE j \in 1..Len(s) :
                    s[j] \notin Whitespace /\ \A k \in (j + 1)..Len(s) : s[k] \in Whitespace)

\* the position of the first "." of a line, and of the first ":" after it
\* (0 when there is none)
DotAt(line) == Find(line, ".")
ColonAt(line) ==
    IF DotAt(line) > 0 /\ \E j \in (DotAt(line) + 1)..Len(line) : line[j] = ":"
    THEN CHOOSE j \in (DotAt(line) + 1)..Len(line) :
            line[j] = ":" /\ \A k \in (DotAt(line) + 1)..(j - 1) : line[k] # ":"
    ELSE 0

\* a line with a "." and, after its first ".", a ":"
HasDotThenColon(line) == ColonAt(line) > 0

\* the lines of a text that have a "." followed by a ":", in order
MatchingLines(text) == SelectSeq(splitlines(text), HasDotThenColon)

\* the title and the content text of such a line
TitleIn(line) == Trim(SubSeq(line, DotAt(line) + 1, ColonAt(line) - 1))
ContentIn(line) == Trim(From(line, ColonAt(line) + 1))

\* the single fallback record of a text
IsFallbackOf(records, text) ==
    records = <<[title |-> <<"P", "i", "t", "c", "h", " ", "D", "e", "c", "k">>,
                 content |-> text]>>

(***************************************************************************)
(* C1                                                                      *)
(***************************************************************************)
\* C1: whatever the raw text, the outline parser returns at least one slide
\* record, and a run of main never ends in the deck assembler's
\* empty-sequence error (ValueError).
C1_ParserNeverEmpty ==
    /\ Parsed => Len(slides) >= 1
    /\ entry \in {"main", "generate_pitch_deck_outline"} => error # "ValueError"

\* a run of main parsed the empty text and went on to write the deck
C1_Witness ==
    /\ entry = "main"
    /\ Parsed /\ Raw = <<>>
    /\ Len(slides) = 1
    /\ pc = "done"
    /\ "pitch_deck.pptx" \in files

(***************************************************************************)
(* C3                                                                      *)
(***************************************************************************)
\* C3: when no line of the raw text has a "." followed later on the line by
\* a ":", the parser returns exactly the fallback record: title "Pitch Deck",
\* content the whole raw text unmodified.
C3_FallbackRecord ==
    (Parsed /\ MatchingLines(Raw) = <<>>) => IsFallbackOf(slides, Raw)

\* the fallback was taken for a text of several lines that has a "." and
\* a ":", but never a ":" after a "." on one line
C3_Witness ==
    /\ Parsed
    /\ MatchingLines(Raw) = <<>>
    /\ Contains(Raw, ".") /\ Contains(Raw, ":") /\ Contains(Raw, "\n")
    /\ IsFallbackOf(slides, Raw)

(***************************************************************************)
(* C7                                                                      *)
(***************************************************************************)
\* C7: when some line has a "." and a ":" after its first ".", the records
\* are, one to one and in order, those of exactly these lines: each record
\* has its line's title and is the record the line gives when parsed alone;
\* blank lines and lines without the "." or the ":" give nothing, change
\* nothing, and no fallback record is added.
C7_OneRecordPerMatchingLine ==
    (Parsed /\ MatchingLines(Raw) # <<>>) =>
        /\ Len(slides) = Len(MatchingLines(Raw))
        /\ \A i \in 1..Len(slides) :
              /\ slides[i].title = TitleIn(MatchingLines(Raw)[i])
              /\ Len(ParseOutline(MatchingLines(Raw)[i])) = 1
              /\ slides[i] = ParseOutline(MatchingLines(Raw)[i])[1]

\* a run of main parsed a text with a skipped line before a matching line
C7_Witness ==
    /\ Parsed
    /\ entry = "main"
    /\ Len(splitlines(Raw)) = 2
    /\ ~HasDotThenColon(splitlines(Raw)[1])
    /\ HasDotThenColon(splitlines(Raw)[2])
    /\ Len(slides) = 1
    /\ slides[1].title = <<"T">>

(***************************************************************************)
(* C2                                                                      *)
(***************************************************************************)
Digits == {"0", "1", "2", "3", "4", "5", "6", "7", "8", "9"}

\* a line of the shape "<n>. <title>: <bullet1>; <bullet2>": digits, ". ",
\* a title, a ":" and bullet text.  Bullet text led by the dash-space marker
\* is left out here; claim C8 is about the marker.
WellFormed(line) ==
    /\ \A k \in 1..Len(line) : line[k] \notin LineBreaks
    /\ DotAt(line) >= 2
    /\ \A k \in 1..(DotAt(line) - 1) : line[k] \in Digits
    /\ ColonAt(line) > 0
    /\ line[DotAt(line) + 1] = " "
    /\ TitleIn(line) # <<>>
    /\ ContentIn(line) # <<>>
    /\ ~(Len(ContentIn(line)) >= 2 /\ SubSeq(ContentIn(line), 1, 2) = <<"-", " ">>)

\* C2: for a text of k >= 1 well-formed lines the parser returns k records,
\* the i-th from the i-th line, its title the trimmed text between the
\* ordinal's "." and the first ":" after it, its content exactly the trimmed
\* text after that ":".
C2_WellFormedLinesExactly ==
    (/\ Parsed
     /\ splitlines(Raw) # <<>>
     /\ \A i \in 1..Len(splitlines(Raw)) : WellFormed(splitlines(Raw)[i]))
    =>
        /\ Len(slides) = Len(splitlines(Raw))
        /\ \A i \in 1..Len(slides) :
              slides[i] = [title   |-> TitleIn(splitlines(Raw)[i]),
                           content |-> ContentIn(splitlines(Raw)[i])]

(***************************************************************************)
(* C8                                                                      *)
(***************************************************************************)
\* a text without its leading bullet markers: each marker is a dash and a
\* space (a dash alone, with no bullet text after it, counts as one too)
RECURSIVE WithoutMarkers(_)
WithoutMarkers(s) ==
    IF s = <<"-">> THEN <<>>
    ELSE IF Len(s) >= 2 /\ s[1] = "-" /\ s[2] = " "
         THEN WithoutMarkers(Trim(From(s, 3)))
         ELSE s

\* C8: the content of every parsed record is the trimmed text after the
\* first ":" of its line's remainder without its leading bullet marker, and
\* nothing else is removed from it.
C8_OnlyTheMarkerIsStripped ==
    (Parsed /\ MatchingLines(Raw) # <<>>) =>
        /\ Len(slides) = Len(MatchingLines(Raw))
        /\ \A i \in 1..Len(slides) :
              slides[i].content = WithoutMarkers(ContentIn(MatchingLines(Raw)[i]))

(***************************************************************************)
(* C4                                                                      *)
(***************************************************************************)
\* C4: create_pitch_deck called with an empty slide sequence fails with
\* ValueError before a presentation is built or saved: no file is written.
C4_EmptySequenceRaises ==
    /\ (entry = "create_pitch_deck" /\ slides = <<>> /\ pc # "create_pitch_deck")
          => (pc = "failed" /\ error = "ValueError")
    /\ error = "ValueError" => (prs = Unset /\ "pitch_deck.pptx" \notin files)

\* a direct call with no slides has ended in ValueError
C4_Witness ==
    /\ entry = "create_pitch_deck"
    /\ slides = <<>>
    /\ pc = "failed"
    /\ error = "ValueError"
    /\ files = {}

(***************************************************************************)
(* C5                                                                      *)
(***************************************************************************)
\* the completion library is absent, or neither the argument nor the
\* environment variable gives a non-empty credential
Misconfigured ==
    \/ ~openai_installed
    \/ api_key \in {None, ""} /\ environ_key \in {None, ""}

ConfigurationErrors == {"RuntimeError: openai not installed", "RuntimeError: no API key"}

\* C5: under a configuration error every generation function raises the
\* configuration error without a request to the service: the run (of main
\* or of the function called) issues no request and writes no file.
C5_ConfigErrorBeforeAnyRequest ==
    (Misconfigured /\ entry # "create_pitch_deck") =>
        /\ requests = <<>>
        /\ files = {}
        /\ openai_api_key = None
        /\ pc \in {IF entry = "main" THEN GenerationSteps[1] ELSE entry, "failed"}
        /\ pc = "failed" => error \in ConfigurationErrors

\* a run of main with the library installed and only empty credentials has
\* failed at its first step
C5_Witness ==
    /\ entry = "main"
    /\ openai_installed
    /\ api_key = "" /\ environ_key = None
    /\ pc = "failed"
    /\ error = "RuntimeError: no API key"
    /\ requests = <<>>

(***************************************************************************)
(* C6                                                                      *)
(***************************************************************************)
\* the artifacts in the order main writes them
WriteOrder ==
    <<"market_analysis.txt", "pricing_tiers.txt", "landing_page.txt", "pitch_deck.pptx">>

\* C6: in a run of main the requests are issued in the fixed order, one per
\* generation step; a failed request is the last one (no retry, no later
\* request) and ends the run with no artifact written; artifacts are written
\* only after four successful requests, in order, and a run that ends has
\* either written all four or failed.
C6_ErrorsAreTerminal ==
    entry = "main" =>
        /\ Len(requests) <= 4
        /\ \A i \in 1..Len(requests) : requests[i].step = GenerationSteps[i]
        /\ \A i \in 1..(Len(requests) - 1) : requests[i].outcome = "ok"
        /\ \A i \in 1..4 : pc = GenerationSteps[i] => Len(requests) = i - 1
        /\ (requests # <<>> /\ requests[Len(requests)].outcome # "ok")
              => (pc = "failed" /\ files = {})
        /\ files # {} =>
              (Len(requests) = 4 /\ \A i \in 1..4 : requests[i].outcome = "ok")
        /\ \E n \in 0..4 : files = {WriteOrder[i] : i \in 1..n}
        /\ pc = "done" => (files = Artifacts /\ error = None)
        /\ pc = "failed" => (error # None /\ files # Artifacts)

\* a run of main whose second request failed, after a first that succeeded
C6_Witness ==
    /\ entry = "main"
    /\ pc = "failed"
    /\ Len(requests) = 2
    /\ requests[1].outcome = "ok"
    /\ requests[2].outcome = "api_error"
    /\ files = {}

(***************************************************************************)
(* C9                                                                      *)
(***************************************************************************)
\* the pieces of a text between the separators of seps
RECURSIVE Pieces(_, _)
Pieces(s, seps) ==
    IF \E i \in 1..Len(s) : s[i] \in seps
    THEN LET i == CHOOSE i \in 1..Len(s) :
                    s[i] \in seps /\ \A k \in 1..(i - 1) : s[k] \notin seps
         IN  <<SubSeq(s, 1, i - 1)>> \o Pieces(From(s, i + 1), seps)
    ELSE <<s>>

\* the segments of a content string: split on ";" and newline, each piece
\* trimmed, the empty ones dropped
RECURSIVE TrimAll(_)
TrimAll(pieces) ==
    IF pieces = <<>> THEN <<>>
    ELSE (IF Trim(Head(pieces)) = <<>> THEN <<>> ELSE <<Trim(Head(pieces))>>)
            \o TrimAll(Tail(pieces))
Segments(content) == TrimAll(Pieces(content, {";", "\n"}))

\* the bullets the assembler put on a slide: the paragraphs of the text
\* frame it filled, none when it filled no frame or left the frame cleared
Emitted(slide) ==
    IF BodyIndex(slide) = 0 THEN <<>>
    ELSE IF slide.placeholders[BodyIndex(slide)].paragraphs = EmptyFrame THEN <<>>
    ELSE slide.placeholders[BodyIndex(slide)].paragraphs

\* C9: for every record the assembler emits one bullet per segment of the
\* content (split on ";" and newline, trimmed, empty ones dropped), in
\* order, so the same content written with either separator gives the same
\* bullets.
C9_OneBulletPerSegment ==
    prs # Unset =>
        /\ Len(prs[1]) = Len(slides)
        /\ \A i \in 1..Len(slides) :
              Emitted(prs[1][i]) = Segments(Get(slides[i], "content", <<>>))

(***************************************************************************)
(* C10                                                                     *)
(***************************************************************************)
\* C10: the saved deck has one slide per record, in order, the first on
\* layout 0 and the later ones on layout 1, and every slide, the first
\* included, has its record's title as title and its record's content as
\* the bullets of its body (the placeholder after the title).
C10_TitleAndBodyOnEverySlide ==
    "pitch_deck.pptx" \in files =>
        /\ Len(prs[1]) = Len(slides)
        /\ \A i \in 1..Len(slides) :
              /\ prs[1][i].layout = (IF i = 1 THEN 0 ELSE 1)
              /\ prs[1][i].placeholders[1].paragraphs
                    = <<Get(slides[i], "title", <<>>)>>
              /\ prs[1][i].placeholders[2].paragraphs
                    = (IF BulletLines(Get(slides[i], "content", <<>>)) = <<>>
                       THEN EmptyFrame
                       ELSE BulletLines(Get(slides[i], "content", <<>>)))

====
